---- MODULE Spec2Model ----
(***************************************************************************)
(* State machine of the task-list screen in src/app/(tabs)/index.tsx.      *)
(*                                                                         *)
(* Strings are sequences of one-character strings, so that trim,           *)
(* toLowerCase, includes and localeCompare are computed and not assumed.   *)
(* An optional field (dueDate?, category?) is the empty sequence when it   *)
(* is undefined and a one-element sequence holding the value otherwise.    *)
(* A Date is its getTime() value, an integer.                              *)
(*                                                                         *)
(* The texts of the model are over the characters of Basic Latin and       *)
(* Latin-1 Supplement (U+0009 to U+000D, U+0020 to U+007E, U+00A0 to       *)
(* U+00FF) but the grave accent U+0060, which no string of a module can    *)
(* hold; toLowerCase is defined on these.  localeCompare collates in the   *)
(* default locale of the runtime, which the code does not choose: the      *)
(* order it gives to the texts it can meet is the variable collation, any  *)
(* total preorder, drawn when the screen starts and the same ever after.   *)
(***************************************************************************)
EXTENDS Integers, Sequences, FiniteSets, TLC

VARIABLES task, taskList, isEditing, currentTaskKey, priority, dueDate,
          category, showDueDatePicker, showCategoryInput, searchQuery,
          filter, selectedCategoryFilter, categoryButton, now, issuedKeys,
          last, collation

vars == <<task, taskList, isEditing, currentTaskKey, priority, dueDate,
          category, showDueDatePicker, showCategoryInput, searchQuery,
          filter, selectedCategoryFilter, categoryButton, now, issuedKeys,
          last, collation>>

formVars == <<task, isEditing, currentTaskKey, priority, dueDate, category>>
pickerVars == <<showDueDatePicker, showCategoryInput>>
clockVars == <<now, issuedKeys>>
queryVars == <<searchQuery, filter, selectedCategoryFilter, categoryButton>>

----------------------------------------------------------------------------
(* Bounds of the model. *)

\* The task list holds at most MaxTasks records (addTask is not offered beyond).
MaxTasks == 2
\* Math.random() has NumKeys possible outcomes.
NumKeys == 2
\* The clock stops advancing after MaxTime ticks.
MaxTime == 1
\* The lists handed to the sort handlers hold at most MaxSorted records.
MaxSorted == 3

----------------------------------------------------------------------------
(* Values. *)

undefined == <<>>
Some(v) == <<v>>
IsDefined(opt) == opt # undefined
Get(opt) == opt[1]

\* useState<string | null>(null): the key no record is being edited under.
NullKey == 0
\* The outcomes of Math.random().toString(); distinct numbers print differently,
\* so a key is modelled by the index of the number drawn.
RandomKeys == 1..NumKeys

Priorities == {"low", "medium", "high"}

EmptyString == <<>>
Str_a == <<"a">>
Str_b == <<"b">>
Str_A == <<"A">>
Str_space == <<" ">>
Str_a_padded == <<" ", "a", "\r">>
Str_BuyMilk == <<"B", "u", "y", " ", "m", "i", "l", "k">>
Str_all == <<"a", "l", "l">>
Str_uncategorized ==
    <<"u", "n", "c", "a", "t", "e", "g", "o", "r", "i", "z", "e", "d">>
Str_zzz == <<"z", "z", "z">>
Str_zzzz == <<"z", "z", "z", "z">>

\* One step of the wall clock and one calendar day, in clock steps.
DayLength == 1

----------------------------------------------------------------------------
(* String functions of the JavaScript runtime. *)

\* The characters String.prototype.trim strips: the WhiteSpace and LineTerminator
\* code points of ECMAScript.  Written here are U+0009 TAB, U+000A LF, U+000B VT,
\* U+000C FF, U+000D CR, U+0020 SPACE, U+00A0 NBSP, U+1680 and U+FEFF.  The others
\* (U+2000 to U+200A, U+2028, U+2029, U+202F, U+205F, U+3000) cannot be written
\* in a string of a module, so no text of the model holds one.
WhiteSpace ==
    {" ", "\t", "\n", "\r", "\f", "", " ", " ", "﻿"}

RECURSIVE TrimStart(_)
TrimStart(s) ==
    IF s # <<>> /\ Head(s) \in WhiteSpace THEN TrimStart(Tail(s)) ELSE s

RECURSIVE TrimEnd(_)
TrimEnd(s) ==
    IF s # <<>> /\ s[Len(s)] \in WhiteSpace
    THEN TrimEnd(SubSeq(s, 1, Len(s) - 1))
    ELSE s

\* String.prototype.trim
Trim(s) == TrimEnd(TrimStart(s))

\* The letters of the model that toLowerCase changes, and what it makes of them.
UpperChars == <<"A", "B", "C", "D", "E", "F", "G", "H", "I", "J", "K", "L",
                "M", "N", "O", "P", "Q", "R", "S", "T", "U", "V", "W", "X",
                "Y", "Z", "À", "Á", "Â", "Ã", "Ä", "Å", "Æ", "Ç", "È", "É",
                "Ê", "Ë", "Ì", "Í", "Î", "Ï", "Ð", "Ñ", "Ò", "Ó", "Ô", "Õ",
                "Ö", "Ø", "Ù", "Ú", "Û", "Ü", "Ý", "Þ">>

LowerChars == <<"a", "b", "c", "d", "e", "f", "g", "h", "i", "j", "k", "l",
                "m", "n", "o", "p", "q", "r", "s", "t", "u", "v", "w", "x",
                "y", "z", "à", "á", "â", "ã", "ä", "å", "æ", "ç", "è", "é",
                "ê", "ë", "ì", "í", "î", "ï", "ð", "ñ", "ò", "ó", "ô", "õ",
                "ö", "ø", "ù", "ú", "û", "ü", "ý", "þ">>

ToLowerChar(c) ==
    IF \E i \in DOMAIN UpperChars : UpperChars[i] = c
    THEN LowerChars[CHOOSE i \in DOMAIN UpperChars : UpperChars[i] = c]
    ELSE c

\* String.prototype.toLowerCase
ToLowerCase(s) == [i \in DOMAIN s |-> ToLowerChar(s[i])]

\* String.prototype.includes
Includes(s, q) ==
    \E i \in 0..(Len(s) - Len(q)) : SubSeq(s, i + 1, i + Len(q)) = q

\* The texts localeCompare is called on: the category names of the model and
\* the text 'zzz' that stands for a missing category.
CollatedTexts == {Str_a, Str_zzz, Str_zzzz}

\* a is a proper prefix of b.
IsProperPrefix(a, b) == Len(a) < Len(b) /\ SubSeq(b, 1, Len(a)) = a

\* The orders a.localeCompare(b), called with no locale, can give to the
\* collated texts: every total preorder, in which two texts may compare as
\* equal.  An order is the function that gives each text one more than the
\* number of texts that collate before it.  What every collation shares is
\* kept: a text collates before the same text followed by more letters.
Collations ==
    {rank \in [CollatedTexts -> 1..Cardinality(CollatedTexts)] :
        /\ \A t \in CollatedTexts :
              rank[t] = 1 + Cardinality({u \in CollatedTexts : rank[u] < rank[t]})
        /\ \A t, u \in CollatedTexts :
              IsProperPrefix(t, u) => rank[t] < rank[u]}

\* String.prototype.localeCompare in the default locale of the runtime:
\* negative, zero or positive.
LocaleCompare(a, b) ==
    IF collation[a] < collation[b] THEN -1
    ELSE IF collation[a] > collation[b] THEN 1
    ELSE 0

\* Mutant: the category is stored without trimming.
NormalizeCategory_NoTrim(c) == IF c # <<>> THEN Some(c) ELSE undefined

\* category.trim() || undefined
NormalizeCategory(c) == IF Trim(c) # <<>> THEN Some(Trim(c)) ELSE undefined

\* task.category as a JavaScript truth value: undefined and '' are falsy.
HasCategory(t) == IsDefined(t.category) /\ Get(t.category) # <<>>

----------------------------------------------------------------------------
(* Task records and the pure part of each handler. *)

Keys(list) == {list[i].key : i \in DOMAIN list}

\* Mutant: the new task ignores the chosen priority.
NewTask_DefaultPriority(key, text, prio, due, cat, time) ==
    [key |-> key, value |-> text, completed |-> FALSE, createdAt |-> time,
     priority |-> "medium", dueDate |-> due, category |-> NormalizeCategory(cat)]

\* const newTask: Task = { key, value: task, completed: false, createdAt, ... }
NewTask(key, text, prio, due, cat, time) ==
    [key |-> key, value |-> text, completed |-> FALSE, createdAt |-> time,
     priority |-> prio, dueDate |-> due, category |-> NormalizeCategory(cat)]

\* Mutant: the text is tested without trimming it.
AddedList_NoTrim(list, key, text, prio, due, cat, time) ==
    IF text # EmptyString
    THEN Append(list, NewTask(key, text, prio, due, cat, time))
    ELSE list

\* The list addTask hands to setTaskList, or the list as it is when it returns early.
AddedList(list, key, text, prio, due, cat, time) ==
    IF Trim(text) # EmptyString
    THEN Append(list, NewTask(key, text, prio, due, cat, time))
    ELSE list

\* taskList.find((task) => task.key === key): the first match, or undefined.
Find(list, key) ==
    IF key \in Keys(list)
    THEN Some(list[CHOOSE i \in DOMAIN list :
                     /\ list[i].key = key
                     /\ \A j \in 1..(i - 1) : list[j].key # key])
    ELSE undefined

\* Mutant: the updated task is rebuilt and loses its completion.
UpdatedList_ResetCompleted(list, key, text, prio, due, cat) ==
    [i \in DOMAIN list |->
        IF list[i].key = key
        THEN [list[i] EXCEPT !.value = text, !.priority = prio, !.dueDate = due,
                             !.category = NormalizeCategory(cat),
                             !.completed = FALSE]
        ELSE list[i]]

\* taskList.map(item => item.key === currentTaskKey ? {...item, value, ...} : item)
UpdatedList(list, key, text, prio, due, cat) ==
    [i \in DOMAIN list |->
        IF list[i].key = key
        THEN [list[i] EXCEPT !.value = text, !.priority = prio, !.dueDate = due,
                             !.category = NormalizeCategory(cat)]
        ELSE list[i]]

KeepOtherKey(t, key) == t.key # key

\* taskList.filter((task) => task.key !== key)
DeletedList(list, key) ==
    LET Keep(t) == KeepOtherKey(t, key) IN SelectSeq(list, Keep)

\* Mutant: the task is marked completed instead of flipped.
ToggledList_SetCompleted(list, key) ==
    [i \in DOMAIN list |->
        IF list[i].key = key
        THEN [list[i] EXCEPT !.completed = TRUE]
        ELSE list[i]]

\* taskList.map(item => item.key === key ? {...item, completed: !completed} : item)
ToggledList(list, key) ==
    [i \in DOMAIN list |->
        IF list[i].key = key
        THEN [list[i] EXCEPT !.completed = ~list[i].completed]
        ELSE list[i]]

\* const d = new Date(); d.setDate(d.getDate() + days): the due date a shortcut
\* button sets when pressed at `time`.
DueDateShortcut(time, days) == Some(time + days * DayLength)

\* Every handler is declared without a return statement: its call yields undefined.
HandlerResult == "undefined"

----------------------------------------------------------------------------
(* Sorting.  Array.prototype.sort is stable and the three comparators are  *)
(* consistent, so the result is the stable arrangement by the comparator.  *)

\* Mutant: medium and low change places.
PriorityOrder_LowSecond(p) ==
    CASE p = "high" -> 1 [] p = "medium" -> 3 [] p = "low" -> 2

\* const priorityOrder = { high: 1, medium: 2, low: 3 }
PriorityOrder(p) == CASE p = "high" -> 1 [] p = "medium" -> 2 [] p = "low" -> 3

ComparePriority(a, b) == PriorityOrder(a.priority) - PriorityOrder(b.priority)

\* Mutant: the due date is ignored.
DateKey_CreatedOnly(t) == t.createdAt

\* a.dueDate || a.createdAt: a Date object is always truthy.
DateKey(t) == IF IsDefined(t.dueDate) THEN Get(t.dueDate) ELSE t.createdAt

CompareDate(a, b) == DateKey(a) - DateKey(b)

\* a.category || 'zzz'
CategoryKey(t) == IF HasCategory(t) THEN Get(t.category) ELSE Str_zzz

CompareCategory(a, b) == LocaleCompare(CategoryKey(a), CategoryKey(b))

Compare(by, a, b) ==
    CASE by = "priority" -> ComparePriority(a, b)
      [] by = "date" -> CompareDate(a, b)
      [] by = "category" -> CompareCategory(a, b)

\* Mutant: x is placed before the elements it compares equal to.
RECURSIVE Insert_TiesFirst(_, _, _)
Insert_TiesFirst(by, s, x) ==
    IF s = <<>> THEN <<x>>
    ELSE IF Compare(by, s[Len(s)], x) < 0 THEN Append(s, x)
    ELSE Append(Insert_TiesFirst(by, SubSeq(s, 1, Len(s) - 1), x), s[Len(s)])

\* x placed after every element of the sorted s that does not compare above it.
RECURSIVE Insert(_, _, _)
Insert(by, s, x) ==
    IF s = <<>> THEN <<x>>
    ELSE IF Compare(by, s[Len(s)], x) <= 0 THEN Append(s, x)
    ELSE Append(Insert(by, SubSeq(s, 1, Len(s) - 1), x), s[Len(s)])

RECURSIVE StableSort(_, _)
StableSort(by, list) ==
    IF list = <<>> THEN <<>>
    ELSE Insert(by, StableSort(by, SubSeq(list, 1, Len(list) - 1)),
                list[Len(list)])

SortedByPriority(list) == StableSort("priority", list)
SortedByDate(list) == StableSort("date", list)
SortedByCategory(list) == StableSort("category", list)

----------------------------------------------------------------------------
(* Derived values of a render. *)

\* Array.from(new Set(taskList.map(task => task.category).filter(Boolean)))
Categories(list) == {Get(list[i].category) : i \in {j \in DOMAIN list : HasCategory(list[j])}}

MatchesSearch(t, query) == Includes(ToLowerCase(t.value), ToLowerCase(query))

MatchesFilter(t, f) ==
    \/ f = "all"
    \/ (f = "Task completed" /\ t.completed)
    \/ (f = "active" /\ ~t.completed)

MatchesCategory(t, sel) ==
    \/ sel = Str_all
    \/ (sel = Str_uncategorized /\ ~HasCategory(t))
    \/ t.category = Some(sel)

FilteredTasks(list, query, f, sel) ==
    LET Matches(t) ==
            MatchesSearch(t, query) /\ MatchesFilter(t, f) /\ MatchesCategory(t, sel)
    IN SelectSeq(list, Matches)

filteredTasks == FilteredTasks(taskList, searchQuery, filter, selectedCategoryFilter)

----------------------------------------------------------------------------
(* The state after construction (the useState initial values).  `last` is  *)
(* a history variable: the handler called by the latest step, its argument,*)
(* what it returned and the state it was called in.  `categoryButton` is   *)
(* history too: the kind of category-filter button pressed last, and so is *)
(* `issuedKeys`: the keys addTask has given to a record so far.            *)

Snapshot ==
    [taskList |-> taskList, task |-> task, priority |-> priority,
     dueDate |-> dueDate, category |-> category, isEditing |-> isEditing,
     currentTaskKey |-> currentTaskKey, now |-> now,
     issuedKeys |-> issuedKeys]

InitialSnapshot ==
    [taskList |-> <<>>, task |-> EmptyString, priority |-> "medium",
     dueDate |-> undefined, category |-> EmptyString, isEditing |-> FALSE,
     currentTaskKey |-> NullKey, now |-> 0, issuedKeys |-> {}]

Called(op, key) ==
    [op |-> op, key |-> key, result |-> HandlerResult, pre |-> Snapshot]

NoCall == [op |-> "none", key |-> NullKey, result |-> HandlerResult,
           pre |-> InitialSnapshot]

Init ==
    /\ task = EmptyString
    /\ taskList = <<>>
    /\ isEditing = FALSE
    /\ currentTaskKey = NullKey
    /\ priority = "medium"
    /\ dueDate = undefined
    /\ category = EmptyString
    /\ showDueDatePicker = FALSE
    /\ showCategoryInput = FALSE
    /\ searchQuery = EmptyString
    /\ filter = "all"
    /\ selectedCategoryFilter = Str_all
    /\ categoryButton = "all"
    /\ now = 0
    /\ issuedKeys = {}
    /\ last = NoCall
    /\ collation \in Collations

----------------------------------------------------------------------------
(* The handlers. *)

\* The ADD button (shown while not editing) and onSubmitEditing: addTask().
\* key is what Math.random() yields in this call.
AddTask(key) ==
    /\ ~isEditing
    /\ Trim(task) # EmptyString => Len(taskList) < MaxTasks
    /\ taskList' = AddedList(taskList, key, task, priority, dueDate, category, now)
    /\ IF Trim(task) # EmptyString
       THEN /\ task' = EmptyString
            /\ priority' = "medium"
            /\ dueDate' = undefined
            /\ category' = EmptyString
            /\ showCategoryInput' = FALSE
       ELSE UNCHANGED <<task, priority, dueDate, category, showCategoryInput>>
    /\ issuedKeys' = IF Trim(task) # EmptyString
                     THEN issuedKeys \cup {key}
                     ELSE issuedKeys
    /\ last' = Called("addTask", IF Trim(task) # EmptyString THEN key ELSE NullKey)
    /\ UNCHANGED <<collation, isEditing, currentTaskKey, showDueDatePicker, queryVars, now>>

\* The Edit button of a row: editTask(key).
EditTask(key) ==
    /\ LET taskToEdit == Find(taskList, key) IN
         IF IsDefined(taskToEdit)
         THEN /\ task' = Get(taskToEdit).value
              /\ priority' = Get(taskToEdit).priority
              /\ dueDate' = Get(taskToEdit).dueDate
              /\ category' = IF HasCategory(Get(taskToEdit))
                             THEN Get(Get(taskToEdit).category)
                             ELSE EmptyString
              /\ isEditing' = TRUE
              /\ currentTaskKey' = key
         ELSE UNCHANGED formVars
    /\ last' = Called("editTask", key)
    /\ UNCHANGED <<collation, taskList, pickerVars, queryVars, clockVars>>

\* The UPDATE button (shown while editing) and onSubmitEditing: updateTask().
UpdateTask ==
    /\ isEditing
    /\ IF currentTaskKey # NullKey
       THEN /\ taskList' = UpdatedList(taskList, currentTaskKey, task, priority,
                                       dueDate, category)
            /\ task' = EmptyString
            /\ priority' = "medium"
            /\ dueDate' = undefined
            /\ category' = EmptyString
            /\ isEditing' = FALSE
            /\ currentTaskKey' = NullKey
            /\ showCategoryInput' = FALSE
       ELSE UNCHANGED <<taskList, formVars, showCategoryInput>>
    /\ last' = Called("updateTask", currentTaskKey)
    /\ UNCHANGED <<collation, showDueDatePicker, queryVars, clockVars>>

\* The Delete button of a row: deleteTask(key).
DeleteTask(key) ==
    /\ taskList' = DeletedList(taskList, key)
    /\ last' = Called("deleteTask", key)
    /\ UNCHANGED <<collation, formVars, pickerVars, queryVars, clockVars>>

\* The checkbox and the text of a row: toggleTaskCompletion(key).
ToggleTaskCompletion(key) ==
    /\ taskList' = ToggledList(taskList, key)
    /\ last' = Called("toggleTaskCompletion", key)
    /\ UNCHANGED <<collation, formVars, pickerVars, queryVars, clockVars>>

SortTasksByPriority ==
    /\ taskList' = SortedByPriority(taskList)
    /\ last' = Called("sortTasksByPriority", NullKey)
    /\ UNCHANGED <<collation, formVars, pickerVars, queryVars, clockVars>>

SortTasksByDate ==
    /\ taskList' = SortedByDate(taskList)
    /\ last' = Called("sortTasksByDate", NullKey)
    /\ UNCHANGED <<collation, formVars, pickerVars, queryVars, clockVars>>

SortTasksByCategory ==
    /\ taskList' = SortedByCategory(taskList)
    /\ last' = Called("sortTasksByCategory", NullKey)
    /\ UNCHANGED <<collation, formVars, pickerVars, queryVars, clockVars>>

----------------------------------------------------------------------------
(* The inputs of the form and of the query bar. *)

\* onChangeText={setTask}
SetTask(text) ==
    /\ task' = text
    /\ last' = NoCall
    /\ UNCHANGED <<collation, taskList, isEditing, currentTaskKey, priority, dueDate,
                   category, pickerVars, queryVars, clockVars>>

\* onPress={() => setPriority(level)}
SetPriority(level) ==
    /\ priority' = level
    /\ last' = NoCall
    /\ UNCHANGED <<collation, taskList, task, isEditing, currentTaskKey, dueDate, category,
                   pickerVars, queryVars, clockVars>>

\* onPress={() => setShowDueDatePicker(!showDueDatePicker)}
ToggleDueDatePicker ==
    /\ showDueDatePicker' = ~showDueDatePicker
    /\ last' = NoCall
    /\ UNCHANGED <<collation, taskList, formVars, showCategoryInput, queryVars, clockVars>>

\* The Today, Tomorrow and Next Week buttons (days = 0, 1, 7) of the open picker.
PickDueDate(days) ==
    /\ showDueDatePicker
    /\ dueDate' = DueDateShortcut(now, days)
    /\ showDueDatePicker' = FALSE
    /\ last' = NoCall
    /\ UNCHANGED <<collation, taskList, task, isEditing, currentTaskKey, priority, category,
                   showCategoryInput, queryVars, clockVars>>

\* The Back button of the open picker.
ClearDueDate ==
    /\ showDueDatePicker
    /\ dueDate' = undefined
    /\ showDueDatePicker' = FALSE
    /\ last' = NoCall
    /\ UNCHANGED <<collation, taskList, task, isEditing, currentTaskKey, priority, category,
                   showCategoryInput, queryVars, clockVars>>

\* onPress={() => setShowCategoryInput(true)}
OpenCategoryInput ==
    /\ ~showCategoryInput
    /\ showCategoryInput' = TRUE
    /\ last' = NoCall
    /\ UNCHANGED <<collation, taskList, formVars, showDueDatePicker, queryVars, clockVars>>

\* onChangeText={setCategory} of the open category input.
SetCategory(text) ==
    /\ showCategoryInput
    /\ category' = text
    /\ last' = NoCall
    /\ UNCHANGED <<collation, taskList, task, isEditing, currentTaskKey, priority, dueDate,
                   pickerVars, queryVars, clockVars>>

\* The Done button and onSubmitEditing of the open category input.
CloseCategoryInput ==
    /\ showCategoryInput
    /\ showCategoryInput' = FALSE
    /\ last' = NoCall
    /\ UNCHANGED <<collation, taskList, formVars, showDueDatePicker, queryVars, clockVars>>

\* onChangeText={setSearchQuery}
SetSearchQuery(text) ==
    /\ searchQuery' = text
    /\ last' = NoCall
    /\ UNCHANGED <<collation, taskList, formVars, pickerVars, filter, selectedCategoryFilter,
                   categoryButton, clockVars>>

\* onPress={() => setFilter(filterType)}
SetFilter(filterType) ==
    /\ filter' = filterType
    /\ last' = NoCall
    /\ UNCHANGED <<collation, taskList, formVars, pickerVars, searchQuery,
                   selectedCategoryFilter, categoryButton, clockVars>>

\* The All button of the category bar, shown when some category exists.
SelectAllCategories ==
    /\ Categories(taskList) # {}
    /\ selectedCategoryFilter' = Str_all
    /\ categoryButton' = "all"
    /\ last' = NoCall
    /\ UNCHANGED <<collation, taskList, formVars, pickerVars, searchQuery, filter, clockVars>>

\* The Uncategorized button of the category bar.
SelectUncategorized ==
    /\ Categories(taskList) # {}
    /\ selectedCategoryFilter' = Str_uncategorized
    /\ categoryButton' = "uncategorized"
    /\ last' = NoCall
    /\ UNCHANGED <<collation, taskList, formVars, pickerVars, searchQuery, filter, clockVars>>

\* The button of one category of the category bar (categories.map).
SelectCategory(cat) ==
    /\ cat \in Categories(taskList)
    /\ selectedCategoryFilter' = cat
    /\ categoryButton' = "name"
    /\ last' = NoCall
    /\ UNCHANGED <<collation, taskList, formVars, pickerVars, searchQuery, filter, clockVars>>

\* Time passes between two events.
Tick ==
    /\ now < MaxTime
    /\ now' = now + 1
    /\ last' = NoCall
    /\ UNCHANGED <<collation, taskList, formVars, pickerVars, queryVars, issuedKeys>>

----------------------------------------------------------------------------
(* Specifications.  Every one runs the handlers of the task list; they     *)
(* differ in the form inputs they type, which the handlers copy into the   *)
(* records field by field.                                                 *)

TaskInputs == {EmptyString, Str_space, Str_a, Str_a_padded}

\* The handlers that add, change or remove a record.
ListHandlers ==
    \/ \E key \in RandomKeys : AddTask(key)
    \/ \E key \in RandomKeys : EditTask(key)
    \/ UpdateTask
    \/ \E key \in RandomKeys : DeleteTask(key)
    \/ \E key \in RandomKeys : ToggleTaskCompletion(key)

\* The handlers that reorder the list.
SortHandlers ==
    \/ SortTasksByPriority
    \/ SortTasksByDate
    \/ SortTasksByCategory

Handlers ==
    \/ ListHandlers
    \/ SortHandlers

\* The text of a task is typed; priority, due date and category keep their defaults.
Next ==
    \/ \E text \in TaskInputs : SetTask(text)
    \/ Handlers

Spec == Init /\ [][Next]_vars

\* The category of a task is typed into the open category input as well.
CategoryInputs == {EmptyString, Str_space, Str_a_padded, Str_zzzz}

NextCategory ==
    \/ SetTask(Str_a)
    \/ OpenCategoryInput
    \/ \E text \in CategoryInputs : SetCategory(text)
    \/ CloseCategoryInput
    \/ Handlers

SpecCategory == Init /\ [][NextCategory]_vars

\* A category named like a keyword of the category filter, and the category bar.
\* The list is not sorted here: the category bar shows the set of the categories
\* of the list, which no order of the records changes.
FilterCategoryInputs == {Str_a, Str_uncategorized}

NextFilter ==
    \/ SetTask(Str_a)
    \/ OpenCategoryInput
    \/ \E text \in FilterCategoryInputs : SetCategory(text)
    \/ CloseCategoryInput
    \/ SelectAllCategories
    \/ SelectUncategorized
    \/ \E cat \in Categories(taskList) : SelectCategory(cat)
    \/ ListHandlers

SpecFilter == Init /\ [][NextFilter]_vars

(* The form handlers applied to every filled form: the screen starts with a     *)
(* task list and a form that earlier events have left behind.  A record of *)
(* the list is one of three tasks, added under any key and different in    *)
(* every field; the third was added last and the first was ticked off.     *)
SeedTasks(time) ==
    {ToggledList(<<NewTask(key, Str_BuyMilk, "high", Some(0), Str_a_padded, 0)>>,
                 key)[1] : key \in RandomKeys}
    \cup {NewTask(key, Str_a, "low", undefined, EmptyString, 0) : key \in RandomKeys}
    \cup {NewTask(key, Str_a_padded, "medium", Some(7 * DayLength), Str_b, time) :
            key \in RandomKeys}

SeqsUpTo(S, n) == UNION {[1..k -> S] : k \in 0..n}

FormTexts == {EmptyString, Str_BuyMilk, Str_a_padded}
FormCategories == {Str_space, Str_a_padded, Str_b}

InitForm ==
    /\ now \in 0..MaxTime
    /\ taskList \in SeqsUpTo(SeedTasks(now), MaxTasks)
    /\ task \in FormTexts
    /\ priority \in Priorities
    /\ dueDate \in {undefined, Some(now)}
    /\ category \in FormCategories
    /\ currentTaskKey \in {NullKey} \cup RandomKeys
    /\ isEditing = (currentTaskKey # NullKey)
    /\ showDueDatePicker = FALSE
    /\ showCategoryInput = FALSE
    /\ searchQuery = EmptyString
    /\ filter = "all"
    /\ selectedCategoryFilter = Str_all
    /\ categoryButton = "all"
    /\ issuedKeys = Keys(taskList)
    /\ last = NoCall
    /\ collation \in Collations

\* The handlers that read the form.
NextForm ==
    \/ \E key \in RandomKeys : AddTask(key)
    \/ \E key \in RandomKeys : EditTask(key)
    \/ UpdateTask

SpecForm == InitForm /\ [][NextForm]_vars

(* The sort handlers applied to every list of up to MaxSorted tasks.  A    *)
(* task without a category was added at some time with any priority and    *)
(* with no due date or the one the Today or the Next Week button gave at   *)
(* that time; a task with a category has one of two, which the collation   *)
(* orders in any way among themselves and against 'zzz'.  The keys are     *)
(* drawn in turn.                                                          *)
SortedCategories == {Str_a, Str_zzzz}

SortedTasks ==
    {NewTask(1, Str_a, prio, undefined, EmptyString, time) :
        prio \in Priorities, time \in 0..MaxTime}
    \cup
    {NewTask(1, Str_a, prio, DueDateShortcut(time, days), EmptyString, time) :
        prio \in Priorities, days \in {0, 7}, time \in 0..MaxTime}
    \cup
    {NewTask(1, Str_a, "medium", undefined, cat, 0) : cat \in SortedCategories}

KeyAt(i) == ((i - 1) % NumKeys) + 1

InitSort ==
    /\ \E n \in 0..MaxSorted :
         \E tasks \in [1..n -> SortedTasks] :
            taskList = [i \in 1..n |-> [tasks[i] EXCEPT !.key = KeyAt(i)]]
    /\ task = EmptyString
    /\ isEditing = FALSE
    /\ currentTaskKey = NullKey
    /\ priority = "medium"
    /\ dueDate = undefined
    /\ category = EmptyString
    /\ showDueDatePicker = FALSE
    /\ showCategoryInput = FALSE
    /\ searchQuery = EmptyString
    /\ filter = "all"
    /\ selectedCategoryFilter = Str_all
    /\ categoryButton = "all"
    /\ now = MaxTime
    /\ issuedKeys = Keys(taskList)
    /\ last = NoCall
    /\ collation \in Collations

NextSort ==
    \/ SortTasksByPriority
    \/ SortTasksByDate
    \/ SortTasksByCategory

SpecSort == InitSort /\ [][NextSort]_vars

(* The query bar applied to every list of up to MaxTasks tasks.  A task has *)
(* one of two texts, is ticked off or not, and has no category, a category  *)
(* or the category named like the Uncategorized keyword.                    *)
QueryTasks ==
    {NewTask(key, text, "medium", undefined, cat, 0) :
        key \in RandomKeys, text \in {Str_a, Str_BuyMilk},
        cat \in {EmptyString, Str_a, Str_uncategorized}}
    \cup
    {ToggledList(<<NewTask(key, text, "medium", undefined, cat, 0)>>, key)[1] :
        key \in RandomKeys, text \in {Str_a, Str_BuyMilk},
        cat \in {EmptyString, Str_a, Str_uncategorized}}

\* Search texts in the other case than the task texts.
SearchInputs == {EmptyString, Str_A, Str_b}

FilterTypes == {"all", "active", "Task completed"}

InitQuery ==
    /\ taskList \in SeqsUpTo(QueryTasks, MaxTasks)
    /\ task = EmptyString
    /\ isEditing = FALSE
    /\ currentTaskKey = NullKey
    /\ priority = "medium"
    /\ dueDate = undefined
    /\ category = EmptyString
    /\ showDueDatePicker = FALSE
    /\ showCategoryInput = FALSE
    /\ searchQuery = EmptyString
    /\ filter = "all"
    /\ selectedCategoryFilter = Str_all
    /\ categoryButton = "all"
    /\ now = 0
    /\ issuedKeys = Keys(taskList)
    /\ last = NoCall
    /\ collation \in Collations

NextQuery ==
    \/ \E text \in SearchInputs : SetSearchQuery(text)
    \/ \E filterType \in FilterTypes : SetFilter(filterType)
    \/ SelectAllCategories
    \/ SelectUncategorized
    \/ \E cat \in Categories(taskList) : SelectCategory(cat)

SpecQuery == InitQuery /\ [][NextQuery]_vars

----------------------------------------------------------------------------
(* Properties. *)

Blank(text) == Trim(text) = EmptyString
Absent(t) == t.category = undefined
\* The key was given to a task that is no longer in the list the handler saw.
Deleted(key) ==
    key \in last.pre.issuedKeys /\ key \notin Keys(last.pre.taskList)
AddedOne == last.op = "addTask" /\ ~Blank(last.pre.task)

\* C1: every record of the task list has a text that is not blank after trimming.
C1_TextNeverBlank == \A i \in DOMAIN taskList : ~Blank(taskList[i].value)

\* C2: whenever updateTask runs in edit mode, the key being edited is the key of
\* a record of the task list.
C2_UpdateOfListedKey ==
    last.op = "updateTask" => last.key \in Keys(last.pre.taskList)

\* C3 as stated: updateTask or toggleTaskCompletion of a deleted key signals
\* NotFound as its result and leaves the task list unchanged.
C3_NotFoundSignalled ==
    (last.op \in {"updateTask", "toggleTaskCompletion"} /\ Deleted(last.key))
        => (last.result = "NotFound" /\ taskList = last.pre.taskList)

\* C4: no two records of the task list have the same key, and the key addTask
\* assigns was never assigned before, not even to a record deleted since.
C4_KeysUniqueNeverReused ==
    /\ \A i, j \in DOMAIN taskList : i # j => taskList[i].key # taskList[j].key
    /\ AddedOne => last.key \notin last.pre.issuedKeys

\* C5: addTask with an empty or whitespace-only text leaves the task list as it
\* was (length, records and order) and returns normally.
C5_BlankAddIgnored ==
    (last.op = "addTask" /\ Blank(last.pre.task))
        => (taskList = last.pre.taskList /\ last.result = "undefined")

C5_Witness ==
    /\ last.op = "addTask"
    /\ last.pre.task = Str_space
    /\ last.pre.taskList # <<>>

\* C6: addTask with a non-blank text appends exactly one record, with that text,
\* the chosen priority, completed = false and createdAt = now, and every record
\* already in the list keeps its fields and its position; "Buy milk" with high
\* priority on an empty list yields exactly that one record.
C6_AddAppends ==
    AddedOne =>
        LET old == last.pre.taskList
            new == taskList[Len(taskList)]
        IN /\ Len(taskList) = Len(old) + 1
           /\ SubSeq(taskList, 1, Len(old)) = old
           /\ new.value = last.pre.task
           /\ new.priority = last.pre.priority
           /\ new.completed = FALSE
           /\ new.createdAt = last.pre.now
           /\ (old = <<>> /\ last.pre.task = Str_BuyMilk /\ last.pre.priority = "high")
                => /\ Len(taskList) = 1
                   /\ taskList[1].value = Str_BuyMilk
                   /\ taskList[1].priority = "high"
                   /\ taskList[1].completed = FALSE

C6_Witness ==
    /\ AddedOne
    /\ last.pre.task = Str_BuyMilk
    /\ last.pre.priority = "high"
    /\ last.pre.now = MaxTime
    /\ Len(last.pre.taskList) = MaxTasks - 1
    /\ Len(taskList) = MaxTasks

\* C7: updateTask of a key of the list replaces text, priority, dueDate and
\* category of the record under that key and keeps its key, createdAt and
\* completed; every record stays at its position, the records under other keys
\* are unchanged and so is the length of the list.
C7_UpdateFrame ==
    (last.op = "updateTask" /\ last.key \in Keys(last.pre.taskList)) =>
        LET old == last.pre.taskList IN
        /\ Len(taskList) = Len(old)
        /\ \A i \in DOMAIN old :
            IF old[i].key = last.key
            THEN /\ taskList[i].value = last.pre.task
                 /\ taskList[i].priority = last.pre.priority
                 /\ taskList[i].dueDate = last.pre.dueDate
                 /\ taskList[i].category =
                        (IF Blank(last.pre.category) THEN undefined
                         ELSE Some(Trim(last.pre.category)))
                 /\ taskList[i].key = old[i].key
                 /\ taskList[i].createdAt = old[i].createdAt
                 /\ taskList[i].completed = old[i].completed
            ELSE taskList[i] = old[i]

C7_Witness ==
    /\ last.op = "updateTask"
    /\ Len(last.pre.taskList) = 2
    /\ last.pre.taskList[1].key # last.key
    /\ last.pre.taskList[2].key = last.key
    /\ last.pre.taskList[2].completed
    /\ last.pre.taskList[2].value # last.pre.task
    /\ last.pre.taskList[2].priority # last.pre.priority
    /\ last.pre.taskList[2].dueDate # last.pre.dueDate
    /\ last.pre.taskList[2].category # taskList[2].category
    /\ last.pre.taskList[2].createdAt # last.pre.now

\* C8: the category of every record is absent or a non-empty string without
\* leading or trailing whitespace.
C8_CategoryTrimmed ==
    \A i \in DOMAIN taskList :
        \/ taskList[i].category = undefined
        \/ /\ Get(taskList[i].category) # EmptyString
           /\ Head(Get(taskList[i].category)) \notin WhiteSpace
           /\ Get(taskList[i].category)[Len(Get(taskList[i].category))]
                \notin WhiteSpace

C8_Witness ==
    /\ last.op = "updateTask"
    /\ last.pre.category = Str_space
    /\ Len(taskList) = 2
    /\ last.pre.taskList[1].category = Some(Str_a)
    /\ taskList[1].category = undefined
    /\ taskList[2].category = Some(Str_a)

\* C9: under the Uncategorized filter the view holds exactly the records without
\* a category, and under the filter of a category name exactly the records of
\* that category (search text and completion filter aside), whatever the name.
PassesOthers(t) == MatchesSearch(t, searchQuery) /\ MatchesFilter(t, filter)

C9_CategoryFilterExact ==
    LET Uncategorized(t) == PassesOthers(t) /\ Absent(t)
        Named(t) == PassesOthers(t) /\ t.category = Some(selectedCategoryFilter)
    IN /\ categoryButton = "uncategorized"
            => filteredTasks = SelectSeq(taskList, Uncategorized)
       /\ categoryButton = "name"
            => filteredTasks = SelectSeq(taskList, Named)

\* C10: sortTasksByCategory leaves every record without a category after every
\* record with one.
C10_AbsentCategoryLast ==
    last.op = "sortTasksByCategory" =>
        \A i, j \in DOMAIN taskList :
            (Absent(taskList[i]) /\ ~Absent(taskList[j])) => j < i

\* The tasks A (low, due in 7 days), B (high, due today) and C (medium, no due
\* date), added in this order.
Scenario(list) ==
    /\ Len(list) = 3
    /\ list[1].priority = "low"
    /\ list[1].dueDate = DueDateShortcut(list[1].createdAt, 7)
    /\ list[2].priority = "high"
    /\ list[2].dueDate = DueDateShortcut(list[2].createdAt, 0)
    /\ list[3].priority = "medium"
    /\ list[3].dueDate = undefined
    /\ list[1].createdAt <= list[2].createdAt
    /\ list[2].createdAt <= list[3].createdAt

\* C11 as stated: sortTasksByDate turns A, B, C into B, A, C.
C11_DateOrderBAC ==
    (last.op = "sortTasksByDate" /\ Scenario(last.pre.taskList)) =>
        LET old == last.pre.taskList IN taskList = <<old[2], old[1], old[3]>>

\* C11 amended: when C is added before the due date of A (as it is when the three
\* are added within seven days), sortTasksByDate turns A, B, C into B, C, A: C is
\* placed by its createdAt, which precedes the due date of A.
C11_DateOrderBCA ==
    (/\ last.op = "sortTasksByDate"
     /\ Scenario(last.pre.taskList)
     /\ last.pre.taskList[3].createdAt
            < last.pre.taskList[1].createdAt + 7 * DayLength) =>
        LET old == last.pre.taskList IN taskList = <<old[2], old[3], old[1]>>

C11_Witness ==
    /\ last.op = "sortTasksByDate"
    /\ Scenario(last.pre.taskList)
    /\ last.pre.taskList[1].createdAt < last.pre.taskList[3].createdAt
    /\ taskList[1].priority = "high"
    /\ taskList[2].priority = "medium"
    /\ taskList[3].priority = "low"

\* C12: sortTasksByPriority replaces the list with a permutation of itself in
\* which high precedes medium precedes low and records of equal priority keep
\* their relative order; A (low), B (high), C (medium) become B, C, A.
C12_PrioritySortStable ==
    last.op = "sortTasksByPriority" =>
        LET old == last.pre.taskList
            High(t) == t.priority = "high"
            Medium(t) == t.priority = "medium"
            Low(t) == t.priority = "low"
        IN /\ taskList = SelectSeq(old, High) \o SelectSeq(old, Medium)
                            \o SelectSeq(old, Low)
           /\ (/\ Len(old) = 3
               /\ Low(old[1]) /\ High(old[2]) /\ Medium(old[3]))
                => taskList = <<old[2], old[3], old[1]>>

C12_Witness ==
    /\ last.op = "sortTasksByPriority"
    /\ Len(taskList) = 3
    /\ last.pre.taskList[1].priority = "low"
    /\ last.pre.taskList[2].priority = "high"
    /\ last.pre.taskList[3].priority = "high"
    /\ last.pre.taskList[2].createdAt # last.pre.taskList[3].createdAt
    /\ taskList[1] = last.pre.taskList[2]
    /\ taskList[2] = last.pre.taskList[3]

\* C13: each sort is idempotent: the list a sort handler has produced is left as
\* it is by the same sort.
C13_SortIdempotent ==
    /\ last.op = "sortTasksByPriority" => SortedByPriority(taskList) = taskList
    /\ last.op = "sortTasksByDate" => SortedByDate(taskList) = taskList
    /\ last.op = "sortTasksByCategory" => SortedByCategory(taskList) = taskList

C13_Witness ==
    /\ last.op = "sortTasksByCategory"
    /\ Len(taskList) = 3
    /\ taskList # last.pre.taskList
    /\ taskList[1].category = taskList[2].category
    /\ taskList[1] # taskList[2]
    /\ Absent(taskList[3])

\* C14: the filtered view is the subsequence, in list order, of the records
\* whose text holds the search text whatever the case, whose completion agrees
\* with the completion filter and whose category agrees with the category filter
\* chosen (any, absent, or equal to the name); under an empty search text and
\* both filters on all it is the whole list.
C14_FilteredViewExact ==
    LET CategoryWanted(t) ==
            CASE categoryButton = "all" -> TRUE
              [] categoryButton = "uncategorized" -> Absent(t)
              [] categoryButton = "name" -> t.category = Some(selectedCategoryFilter)
        Wanted(t) == PassesOthers(t) /\ CategoryWanted(t)
    IN /\ filteredTasks = SelectSeq(taskList, Wanted)
       /\ (searchQuery = EmptyString /\ filter = "all" /\ categoryButton = "all")
            => filteredTasks = taskList

\* C15: toggleTaskCompletion of a key of the list flips the completed flag of the
\* record under that key and nothing else: the other fields of the record, its
\* position and the records under other keys are unchanged, and a second
\* toggleTaskCompletion of the key gives back the list before the first.
C15_ToggleFlipsOnlyCompleted ==
    (last.op = "toggleTaskCompletion" /\ last.key \in Keys(last.pre.taskList)) =>
        LET old == last.pre.taskList IN
        /\ Len(taskList) = Len(old)
        /\ \A i \in DOMAIN old :
            IF old[i].key = last.key
            THEN /\ taskList[i].completed = ~old[i].completed
                 /\ [taskList[i] EXCEPT !.completed = old[i].completed] = old[i]
            ELSE taskList[i] = old[i]
        /\ ToggledList(taskList, last.key) = old

C15_Witness ==
    /\ last.op = "toggleTaskCompletion"
    /\ Len(last.pre.taskList) = 2
    /\ last.pre.taskList[1].key # last.key
    /\ last.pre.taskList[2].key = last.key
    /\ last.pre.taskList[2].completed
    /\ ~taskList[2].completed

\* C16: deleteTask of a key of the list removes one record, the one under that
\* key: the list is one shorter and is the old list without that record, the
\* other records unchanged and in their old order.
C16_DeleteRemovesOne ==
    (last.op = "deleteTask" /\ last.key \in Keys(last.pre.taskList)) =>
        LET old == last.pre.taskList IN
        /\ Len(taskList) = Len(old) - 1
        /\ \E i \in DOMAIN old :
            /\ old[i].key = last.key
            /\ taskList = SubSeq(old, 1, i - 1) \o SubSeq(old, i + 1, Len(old))

\* C17: the selected category filter is 'all', 'uncategorized' or the category of
\* a record of the list.
C17_SelectedCategoryExists ==
    selectedCategoryFilter \in {Str_all, Str_uncategorized} \cup Categories(taskList)

====
